---- MODULE Spec2Model ----
(***************************************************************************)
(* SoupaWhisper (src/dictate.py): the Dictation controller, its            *)
(* background model loader and the hotkey event loop.                      *)
(*                                                                         *)
(* Two threads: the loader thread (Dictation._load_model) and the main     *)
(* thread (Dictation.run, which calls start_recording and stop_recording   *)
(* inline).  The loader is modelled statement by statement, because the    *)
(* main thread reads model, model_loaded and model_error while it runs.    *)
(* stop_recording is split at the points where it reads the loader's       *)
(* fields (190, 192, 199) and at its try/except/finally boundaries.        *)
(*                                                                         *)
(* External calls that the program handles as fallible are modelled with   *)
(* both outcomes: the engine's construction (122), the loader's banner     *)
(* output inside the same try block (124-126), notify-send (138),          *)
(* model.transcribe (199), the clipboard and typing commands (210-226).    *)
(* Console output of the main thread, tempfile creation and the spawn of   *)
(* arecord (checked by check_dependencies) are taken to succeed.           *)
(*                                                                         *)
(* Four specifications: Spec, the controller after a successful import;    *)
(* SpecListener, the same with the device read failures of run();          *)
(* SpecConfig, the import's load_config over every configuration file;     *)
(* SpecLive, the controller under fair scheduling of the two threads.      *)
(***************************************************************************)
EXTENDS Integers, Sequences, FiniteSets, TLC

\* ------------------------------------------------------------------ bounds
MaxSessions == 3      \* recordings started in one run of the model
MaxLiveSessions == 1  \* recordings started in the runs checked for liveness
NumDevices  == 2      \* keyboards found by find_keyboards()

Sessions == 1..MaxSessions
Devices  == 1..NumDevices

\* ------------------------------------------------------------ value spaces
None == "None"
StillRunning == -1        \* exit_code of a process that has not ended
NoSession == 0
NoDevice == 0

\* str(e) of the exception WhisperModel(...) raised.  The empty string is the
\* str() of an exception raised without arguments (MemoryError(), for one).
LoadErrors == {"", "CUDA driver version is insufficient", "model not found"}

\* str(e) of an OSError raised by print() when stdout is gone.
BannerError == "[Errno 32] Broken pipe"

\* Python truthiness of self.model_error (None or a str): lines 152 and 192.
Truthy(v) == v # None /\ v # ""

\* Of the exceptions the main thread can have in flight ("TranscribeError",
\* "AttributeError", "DispatchError", "NotifyError"), those that are OSErrors.
OSErrors == {"NotifyError"}     \* FileNotFoundError etc. from subprocess.run

\* Texts are sequences of characters; a segment list is a sequence of texts.
SP == " "
SegmentLists ==
  { << >>,
    << <<SP>> >>,
    << <<"h","i">> >>,
    << <<"h","i">>, <<SP,"y","o",SP>> >>,
    << <<SP>>, << >> >> }

RECURSIVE LStrip(_)
LStrip(s) == IF s # << >> /\ Head(s) = SP THEN LStrip(Tail(s)) ELSE s

RECURSIVE RStrip(_)
RStrip(s) ==
  IF s # << >> /\ s[Len(s)] = SP THEN RStrip(SubSeq(s, 1, Len(s) - 1)) ELSE s

\* str.strip() on segment.text (line 205)
Strip(s) == RStrip(LStrip(s))

\* " ".join(segment.text.strip() for segment in segments) (line 205)
RECURSIVE Join(_)
Join(segs) ==
  IF segs = << >> THEN << >>
  ELSE IF Len(segs) = 1 THEN Strip(segs[1])
  ELSE Strip(segs[1]) \o <<SP>> \o Join(Tail(segs))

VARIABLES
  config_file,  \* ~/.config/soupawhisper/config.ini as the import finds it
  CONFIG,       \* what load_config returned, or how it ended
  \* configuration read at import (lines 37, 102, 103)
  SESSION_TYPE, AUTO_TYPE, NOTIFICATIONS,
  \* Dictation fields (lines 108-114)
  recording, record_process, temp_file, model, model_loaded, model_error, running,
  \* the loader thread: position and the exception it is handling
  lpc, load_exc,
  \* the main thread: position, exception in flight, the local `text`
  cpc, raised, text,
  segments,     \* what model.transcribe emitted, until line 205 has joined it
  dispatched,   \* <<command, text>> of each output command invoked by this
                \* call of stop_recording
  \* run(): the devices registered with the selector (lines 256-258)
  registered,
  \* the world outside the process
  disk,         \* sessions whose temp file exists
  procs,        \* sessions whose arecord process runs
  \* observation
  nextId,       \* sessions started so far + 1
  alive,        \* sessions started whose Up-edge handling has not ended
  deleted,      \* per session: number of os.unlink calls on its file
  path,         \* per session: how its Up-edge handling left stop_recording
  escaped,      \* exception that left the last handler call ("none": returned)
  noops,        \* the early returns taken so far (lines 153 and 177)
  read_failed,  \* devices whose dev.read() has raised OSError (264, 270)
  started_by,   \* device whose Down edge started the recording in progress
  stopped_by,   \* device whose Up edge ended it (both kept until the
                \* readiness wait of that Up edge is over)
  log,          \* effects of the current cycle, in order
  exit_code     \* the status the process ended with, StillRunning before

config   == <<SESSION_TYPE, AUTO_TYPE, NOTIFICATIONS, config_file, CONFIG>>
fields   == <<recording, record_process, temp_file, running>>
loader   == <<model, model_loaded, model_error, lpc, load_exc>>
mainthr  == <<cpc, raised, text, segments, dispatched>>
world    == <<disk, procs>>
observe  == <<nextId, alive, deleted, path, escaped, noops, log>>
devs     == <<registered, read_failed, started_by, stopped_by>>
vars     == <<config, fields, loader, mainthr, world, observe, devs,
              exit_code>>

\* ModelState of the spec, derived from the latch and the stored error.
ModelState ==
  IF ~model_loaded THEN "Loading"
  ELSE IF model_error = None THEN "Ready"
  ELSE "Failed"

\* Controller state of the spec.
CtrlState ==
  IF cpc # "run" THEN "Transcribing"
  ELSE IF recording THEN "Recording"
  ELSE "Idle"

\* notify(): returns at once when notifications are off (136-137); otherwise
\* subprocess.run either returns or raises an OSError (138-149).
NotifyOutcomes == IF NOTIFICATIONS THEN {"ok", "raise"} ELSE {"ok"}

\* values of XDG_SESSION_TYPE ("" when unset) and of the two display
\* variables ("" when unset or empty)
XdgSessionTypes == {"", "wayland", "x11", "Wayland", "X11", "tty", "mir"}
DisplayValues   == {"", ":0", "wayland-0"}

\* str.lower on the values used in this module
Lower(v) == CASE v = "Wayland" -> "wayland"
              [] v = "X11"     -> "x11"
              [] v = "True"    -> "true"
              [] v = "Off"     -> "off"
              [] OTHER         -> v

detect_session_type(xdg_session_type, wayland_display, display) ==
  LET session == Lower(xdg_session_type) IN
  IF session \in {"wayland", "x11"} THEN session
  ELSE IF wayland_display # "" THEN "wayland"
  ELSE IF display # "" THEN "x11"
  ELSE "x11"

\* ------------------------------------------------------ the configuration
Missing == "<missing>"            \* an option the file does not have

\* the file: absent, without a section header before its first option, or
\* parsed into the six options load_config asks for
ModelValues   == {Missing, "small", "tiny%"}
StringValues  == {Missing, "cuda"}
KeyValues     == {Missing, "f9"}
BooleanValues == {Missing, "True", "Off", "maybe", ""}

BlankFile(kind) ==
  [kind |-> kind, model |-> Missing, device |-> Missing,
   compute_type |-> Missing, key |-> Missing, auto_type |-> Missing,
   notifications |-> Missing]

ConfigFiles ==
  {BlankFile("absent"), BlankFile("no_section_header")}
  \cup [kind : {"parsed"}, model : ModelValues, device : StringValues,
        compute_type : StringValues, key : KeyValues,
        auto_type : BooleanValues, notifications : BooleanValues]

\* the files under which the controller is explored: the four resolutions of
\* auto_type and notifications, the other options left to their defaults
ControllerConfigFiles ==
  {f \in ConfigFiles :
     /\ f.kind = "parsed"
     /\ f.model = Missing /\ f.device = Missing
     /\ f.compute_type = Missing /\ f.key = Missing
     /\ f.auto_type \in {"True", "Off"}
     /\ f.notifications \in {Missing, "Off"}}

defaults ==
  [model |-> "base.en", device |-> "cpu", compute_type |-> "int8",
   key |-> "f12", auto_type |-> "true", notifications |-> "true"]

\* configparser.BOOLEAN_STATES
TrueWords  == {"1", "yes", "true", "on"}
FalseWords == {"0", "no", "false", "off"}

\* config.get(section, option, fallback=...): the fallback stands in for a
\* missing option only; BasicInterpolation rejects a lone "%"
GetRaises(v) == v = "tiny%"
Get(v, fallback) == IF v = Missing THEN fallback ELSE v

\* config.getboolean(section, option, fallback=True)
GetBooleanRaises(v) == v # Missing /\ Lower(v) \notin TrueWords \cup FalseWords
GetBoolean(v) == IF v = Missing THEN TRUE ELSE Lower(v) \in TrueWords

Raised(exc) == [status |-> exc]

\* lines 43-66; the dict display evaluates its values in the order written
load_config(f) ==
  IF f.kind = "no_section_header" THEN Raised("MissingSectionHeaderError")
  ELSE IF GetRaises(f.model) \/ GetRaises(f.device)
          \/ GetRaises(f.compute_type) \/ GetRaises(f.key)
       THEN Raised("InterpolationSyntaxError")
  ELSE IF GetBooleanRaises(f.auto_type) \/ GetBooleanRaises(f.notifications)
       THEN Raised("ValueError")
  ELSE [status        |-> "ok",
        model         |-> Get(f.model, defaults.model),
        device        |-> Get(f.device, defaults.device),
        compute_type  |-> Get(f.compute_type, defaults.compute_type),
        key           |-> Get(f.key, defaults.key),
        auto_type     |-> GetBoolean(f.auto_type),
        notifications |-> GetBoolean(f.notifications)]

\* the Dictation object after __init__, and the world around it
InitDictation ==
  /\ \E xdg \in XdgSessionTypes, wd \in DisplayValues, d \in DisplayValues :
        SESSION_TYPE = detect_session_type(xdg, wd, d)
  /\ recording = FALSE
  /\ record_process = NoSession
  /\ temp_file = NoSession
  /\ model = None
  /\ model_loaded = FALSE
  /\ model_error = None
  /\ running = TRUE
  /\ exit_code = StillRunning
  /\ lpc = "construct"
  /\ load_exc = None
  /\ cpc = "run"
  /\ raised = "none"
  /\ text = << >>
  /\ segments = << >>
  /\ dispatched = << >>
  /\ disk = {}
  /\ procs = {}
  /\ nextId = 1
  /\ alive = {}
  /\ deleted = [s \in Sessions |-> 0]
  /\ path = [s \in Sessions |-> "none"]
  /\ escaped = "none"
  /\ noops = {}
  /\ log = << >>
  /\ registered = Devices
  /\ read_failed = {}
  /\ started_by = NoDevice
  /\ stopped_by = NoDevice

\* the import has resolved the configuration (lines 69, 98-103)
Init ==
  /\ config_file \in ControllerConfigFiles
  /\ CONFIG = load_config(config_file)
  /\ AUTO_TYPE = CONFIG.auto_type
  /\ NOTIFICATIONS = CONFIG.notifications
  /\ InitDictation

\* the import before line 69, over every configuration file; the module
\* globals of lines 98-103 are not bound yet
InitConfig ==
  /\ config_file \in ConfigFiles
  /\ CONFIG = [status |-> "unset"]
  /\ AUTO_TYPE = None
  /\ NOTIFICATIONS = None
  /\ InitDictation

\* lines 69 and 102-103; an exception of load_config ends the import, and
\* the interpreter exits with status 1
LoadConfig ==
  /\ running
  /\ CONFIG.status = "unset"
  /\ CONFIG' = load_config(config_file)
  /\ IF CONFIG'.status = "ok"
     THEN /\ AUTO_TYPE' = CONFIG'.auto_type
          /\ NOTIFICATIONS' = CONFIG'.notifications
          /\ UNCHANGED <<running, exit_code>>
     ELSE /\ running' = FALSE
          /\ exit_code' = 1
          /\ UNCHANGED <<AUTO_TYPE, NOTIFICATIONS>>
  /\ UNCHANGED <<SESSION_TYPE, config_file, recording, record_process,
                 temp_file, loader, mainthr, world, observe, devs>>

SpecConfig == InitConfig /\ [][LoadConfig]_vars

\* ------------------------------------------------------- the loader thread
\* (a daemon thread: os._exit in stop() ends it with the process)

\* line 122: self.model = WhisperModel(...)
LoadModel ==
  /\ running
  /\ lpc = "construct"
  /\ \/ /\ model' = "engine"
        /\ lpc' = "set"
        /\ UNCHANGED load_exc
     \/ \E e \in LoadErrors :
           /\ load_exc' = e
           /\ lpc' = "except"
           /\ UNCHANGED model
  /\ UNCHANGED <<model_loaded, model_error>>
  /\ UNCHANGED <<exit_code, config, fields, mainthr, world, observe, devs>>

\* line 123: self.model_loaded.set()
SetLoaded ==
  /\ running
  /\ lpc = "set"
  /\ model_loaded' = TRUE
  /\ lpc' = "banner"
  /\ UNCHANGED <<model, model_error, load_exc>>
  /\ UNCHANGED <<exit_code, config, fields, mainthr, world, observe, devs>>

\* lines 124-126: the three print() calls, still inside the try block
PrintBanner ==
  /\ running
  /\ lpc = "banner"
  /\ \/ /\ lpc' = "done"
        /\ UNCHANGED load_exc
     \/ /\ load_exc' = BannerError
        /\ lpc' = "except"
  /\ UNCHANGED <<model, model_loaded, model_error>>
  /\ UNCHANGED <<exit_code, config, fields, mainthr, world, observe, devs>>

\* lines 127-128: except Exception as e: self.model_error = str(e)
RecordLoadError ==
  /\ running
  /\ lpc = "except"
  /\ model_error' = load_exc
  /\ lpc' = "except_set"
  /\ UNCHANGED <<model, model_loaded, load_exc>>
  /\ UNCHANGED <<exit_code, config, fields, mainthr, world, observe, devs>>

\* an except clause that records the error and leaves the latch alone
SetLoadedAfterError_NoSet ==
  /\ running
  /\ lpc = "except_set"
  /\ lpc' = "done"
  /\ UNCHANGED <<model, model_loaded, model_error, load_exc>>
  /\ UNCHANGED <<exit_code, config, fields, mainthr, world, observe, devs>>

\* lines 129-132: self.model_loaded.set(), then diagnostics
SetLoadedAfterError ==
  /\ running
  /\ lpc = "except_set"
  /\ model_loaded' = TRUE
  /\ lpc' = "done"
  /\ UNCHANGED <<model, model_error, load_exc>>
  /\ UNCHANGED <<exit_code, config, fields, mainthr, world, observe, devs>>


\* --------------------------------------------------------- the main thread

\* run(), lines 263-271: an exception leaving a handler is swallowed when it
\* is an OSError; any other exception ends the loop.
RunAfter(exc) == IF exc = "none" \/ exc \in OSErrors THEN "run" ELSE "crashed"

Escape(outcome) == IF outcome = "ok" THEN "none" ELSE "NotifyError"

\* start_recording without the `self.recording` half of its guard
StartRecording_NoRecordingGuard(d) ==
  /\ running
  /\ cpc = "run"
  /\ d \in registered
  /\ IF Truthy(model_error)
     THEN /\ escaped' = "none"
          /\ noops' = noops \cup {"down_model_error"}
          /\ UNCHANGED <<recording, record_process, temp_file, disk, procs,
                         nextId, alive, log, started_by, stopped_by>>
     ELSE /\ nextId <= MaxSessions
          /\ started_by' = d
          /\ stopped_by' = NoDevice
          /\ UNCHANGED noops
          /\ recording' = TRUE
          /\ temp_file' = nextId
          /\ disk' = disk \cup {nextId}
          /\ record_process' = nextId
          /\ procs' = procs \cup {nextId}
          /\ alive' = alive \cup {nextId}
          /\ nextId' = nextId + 1
          /\ log' = <<"tempfile", "arecord", "notify:Recording...">>
          /\ \E o \in NotifyOutcomes : escaped' = Escape(o)
  /\ UNCHANGED <<exit_code, config, running, loader, mainthr, deleted, path,
                 registered, read_failed>>

\* lines 151-173 (called from run(), line 267, on value 1 of the hotkey).
\* The guard reads self.recording and self.model_error; past it the flag is
\* set, the temp file is created and closed, arecord is spawned on it and the
\* "Recording..." notification is sent.  An OSError out of notify() leaves
\* through run()'s except clause with the session started.
StartRecording(d) ==
  /\ running
  /\ cpc = "run"
  /\ d \in registered
  /\ IF recording \/ Truthy(model_error)
     THEN /\ escaped' = "none"
          /\ noops' = noops \cup {IF recording THEN "down_recording"
                                                ELSE "down_model_error"}
          /\ UNCHANGED <<recording, record_process, temp_file, disk, procs,
                         nextId, alive, log, started_by, stopped_by>>
     ELSE /\ nextId <= MaxSessions
          /\ started_by' = d
          /\ stopped_by' = NoDevice
          /\ UNCHANGED noops
          /\ recording' = TRUE
          /\ temp_file' = nextId
          /\ disk' = disk \cup {nextId}
          /\ record_process' = nextId
          /\ procs' = procs \cup {nextId}
          /\ alive' = alive \cup {nextId}
          /\ nextId' = nextId + 1
          /\ log' = <<"tempfile", "arecord", "notify:Recording...">>
          /\ \E o \in NotifyOutcomes : escaped' = Escape(o)
  /\ UNCHANGED <<exit_code, config, running, loader, mainthr, deleted, path,
                 registered, read_failed>>

\* stop_recording without its early return
StopRecording_NoEarlyReturn(d) ==
  /\ running
  /\ cpc = "run"
  /\ d \in registered
  /\ recording' = FALSE
  /\ record_process' = NoSession
  /\ procs' = procs \ {record_process}
  /\ log' = log \o (IF record_process # NoSession THEN <<"terminate">> ELSE << >>)
                \o <<"notify:Transcribing...">>
  /\ \E o \in NotifyOutcomes :
        IF o = "ok"
        THEN /\ cpc' = "wait"
             /\ escaped' = "none"
             /\ stopped_by' = d
             /\ UNCHANGED <<alive, path, started_by>>
        ELSE /\ cpc' = RunAfter("NotifyError")
             /\ escaped' = "NotifyError"
             /\ started_by' = NoDevice
             /\ stopped_by' = NoDevice
             /\ alive' = alive \ {temp_file}
             /\ path' = IF temp_file \in Sessions
                        THEN [path EXCEPT ![temp_file] = "aborted"] ELSE path
  /\ noops' = IF recording THEN noops ELSE noops \cup {"up_idle"}
  /\ UNCHANGED <<exit_code, config, temp_file, running, loader, raised, text, segments,
                 dispatched, disk, nextId, deleted, registered, read_failed>>

\* stop_recording that honours an Up edge only from the device whose Down
\* edge started the recording
StopRecording_PerDevice(d) ==
  /\ running
  /\ cpc = "run"
  /\ d \in registered
  /\ IF ~recording \/ d # started_by
     THEN /\ escaped' = "none"
          /\ noops' = noops \cup {"up_idle"}
          /\ UNCHANGED <<recording, record_process, procs, log, cpc, alive, path,
                         started_by, stopped_by>>
     ELSE /\ recording' = FALSE
          /\ UNCHANGED noops
          /\ record_process' = NoSession
          /\ procs' = procs \ {record_process}
          /\ log' = log \o (IF record_process # NoSession
                            THEN <<"terminate">> ELSE << >>)
                        \o <<"notify:Transcribing...">>
          /\ \E o \in NotifyOutcomes :
                IF o = "ok"
                THEN /\ cpc' = "wait"
                     /\ escaped' = "none"
                     /\ stopped_by' = d
                     /\ UNCHANGED <<alive, path, started_by>>
                ELSE /\ cpc' = RunAfter("NotifyError")
                     /\ escaped' = "NotifyError"
                     /\ started_by' = NoDevice
                     /\ stopped_by' = NoDevice
                     /\ alive' = alive \ {temp_file}
                     /\ path' = [path EXCEPT ![temp_file] = "aborted"]
  /\ UNCHANGED <<exit_code, config, temp_file, running, loader, raised, text, segments,
                 dispatched, disk, nextId, deleted, registered, read_failed>>

\* lines 175-187 (called from run(), line 269, on value 0 of the hotkey):
\* early return when not recording; otherwise clear the flag, terminate and
\* reap arecord, and send the "Transcribing..." notification.  An OSError out
\* of notify() leaves stop_recording here, before the wait.
StopRecording(d) ==
  /\ running
  /\ cpc = "run"
  /\ d \in registered
  /\ IF ~recording
     THEN /\ escaped' = "none"
          /\ noops' = noops \cup {"up_idle"}
          /\ UNCHANGED <<recording, record_process, procs, log, cpc, alive, path,
                         started_by, stopped_by>>
     ELSE /\ recording' = FALSE
          /\ UNCHANGED noops
          /\ record_process' = NoSession
          /\ procs' = procs \ {record_process}
          /\ log' = log \o (IF record_process # NoSession
                            THEN <<"terminate">> ELSE << >>)
                        \o <<"notify:Transcribing...">>
          /\ \E o \in NotifyOutcomes :
                IF o = "ok"
                THEN /\ cpc' = "wait"
                     /\ escaped' = "none"
                     /\ stopped_by' = d
                     /\ UNCHANGED <<alive, path, started_by>>
                ELSE /\ cpc' = RunAfter("NotifyError")
                     /\ escaped' = "NotifyError"
                     /\ started_by' = NoDevice
                     /\ stopped_by' = NoDevice
                     /\ alive' = alive \ {temp_file}
                     /\ path' = [path EXCEPT ![temp_file] = "aborted"]
  /\ UNCHANGED <<exit_code, config, temp_file, running, loader, raised, text, segments,
                 dispatched, disk, nextId, deleted, registered, read_failed>>

\* line 190: self.model_loaded.wait() returns once the latch is set
AwaitModel ==
  /\ running
  /\ cpc = "wait"
  /\ model_loaded
  /\ cpc' = "check"
  /\ started_by' = NoDevice
  /\ stopped_by' = NoDevice
  /\ UNCHANGED <<exit_code, config, fields, loader, raised, text, segments, dispatched,
                 world, observe, registered, read_failed>>

\* lines 192-195: the model-failed exit: notify and return
CheckModelError ==
  /\ running
  /\ cpc = "check"
  /\ IF Truthy(model_error)
     THEN /\ log' = Append(log, "notify:Error")
          /\ \E o \in NotifyOutcomes :
                /\ escaped' = Escape(o)
                /\ cpc' = RunAfter(Escape(o))
          /\ alive' = alive \ {temp_file}
          /\ path' = [path EXCEPT ![temp_file] = "model_failed"]
     ELSE /\ cpc' = "transcribe"
          /\ UNCHANGED <<log, escaped, alive, path>>
  /\ UNCHANGED <<exit_code, config, fields, loader, raised, text, segments, dispatched,
                 world, nextId, deleted, noops, devs>>

\* lines 198-205: self.model.transcribe(...) and the join of the segments.
\* With self.model None the attribute lookup raises before any call is made.
Transcribe ==
  /\ running
  /\ cpc = "transcribe"
  /\ IF model = None
     THEN /\ raised' = "AttributeError"
          /\ cpc' = "except"
          /\ path' = [path EXCEPT ![temp_file] = "transcribe_raised"]
          /\ UNCHANGED <<text, segments, log>>
     ELSE /\ log' = Append(log, "transcribe")
          /\ \/ /\ raised' = "TranscribeError"
                /\ cpc' = "except"
                /\ path' = [path EXCEPT ![temp_file] = "transcribe_raised"]
                /\ UNCHANGED <<text, segments>>
             \/ \E segs \in SegmentLists :
                   /\ segments' = segs
                   /\ text' = Join(segs)
                   /\ cpc' = "dispatch"
                   /\ UNCHANGED <<raised, path>>
  /\ UNCHANGED <<exit_code, config, fields, loader, dispatched, world, nextId, alive,
                 deleted, escaped, noops, devs>>

\* the backend selected at import (lines 209-218, 223-226)
ClipboardCmd == IF SESSION_TYPE = "wayland" THEN "wl-copy" ELSE "xclip"

\* a typing command that ignores the session type
TypeCmd_AlwaysX11 == "xdotool"

TypeCmd      == IF SESSION_TYPE = "wayland" THEN "wtype" ELSE "xdotool"

\* the dispatch without the `if text:` test of line 207
Dispatch_NoEmptyTest ==
  /\ running
  /\ cpc = "dispatch"
  /\ segments' = << >>
  /\ \E o \in NotifyOutcomes :
        /\ log' = log \o <<ClipboardCmd>>
                      \o (IF AUTO_TYPE THEN <<TypeCmd>> ELSE << >>)
                      \o <<"notify:Copied!">>
        /\ dispatched' = << <<ClipboardCmd, text>> >>
                           \o (IF AUTO_TYPE THEN << <<TypeCmd, text>> >>
                                            ELSE << >>)
        /\ IF o = "ok"
           THEN /\ cpc' = "finally"
                /\ path' = [path EXCEPT ![temp_file] = "success"]
                /\ UNCHANGED raised
           ELSE /\ cpc' = "except"
                /\ path' = [path EXCEPT ![temp_file] = "notify_raised"]
                /\ raised' = "NotifyError"
  /\ UNCHANGED <<exit_code, config, fields, loader, text, world, nextId, alive, deleted,
                 escaped, noops, devs>>

\* lines 207-232: with text, the clipboard command, the typing command when
\* AUTO_TYPE, then the "Copied!" notification; without, "No speech detected".
\* Each command, and the notification, may raise; all of it is inside the try.
Dispatch ==
  /\ running
  /\ cpc = "dispatch"
  /\ segments' = << >>
  /\ IF text # << >>
     THEN \/ /\ raised' = "DispatchError"          \* clipboard command raised
             /\ cpc' = "except"
             /\ path' = [path EXCEPT ![temp_file] = "dispatch_raised"]
             /\ dispatched' = << <<ClipboardCmd, text>> >>
             /\ UNCHANGED log
          \/ /\ AUTO_TYPE                          \* typing command raised
             /\ raised' = "DispatchError"
             /\ cpc' = "except"
             /\ path' = [path EXCEPT ![temp_file] = "dispatch_raised"]
             /\ dispatched' = << <<ClipboardCmd, text>>, <<TypeCmd, text>> >>
             /\ log' = Append(log, ClipboardCmd)
          \/ \E o \in NotifyOutcomes :
                /\ log' = log \o <<ClipboardCmd>>
                              \o (IF AUTO_TYPE THEN <<TypeCmd>> ELSE << >>)
                              \o <<"notify:Copied!">>
                /\ dispatched' = << <<ClipboardCmd, text>> >>
                                   \o (IF AUTO_TYPE THEN << <<TypeCmd, text>> >>
                                                    ELSE << >>)
                /\ IF o = "ok"
                   THEN /\ cpc' = "finally"
                        /\ path' = [path EXCEPT ![temp_file] = "success"]
                        /\ UNCHANGED raised
                   ELSE /\ cpc' = "except"
                        /\ path' = [path EXCEPT ![temp_file] = "notify_raised"]
                        /\ raised' = "NotifyError"
     ELSE \E o \in NotifyOutcomes :
             /\ log' = Append(log, "notify:No speech detected")
             /\ UNCHANGED dispatched
             /\ IF o = "ok"
                THEN /\ cpc' = "finally"
                     /\ path' = [path EXCEPT ![temp_file] = "empty"]
                     /\ UNCHANGED raised
                ELSE /\ cpc' = "except"
                     /\ path' = [path EXCEPT ![temp_file] = "notify_raised"]
                     /\ raised' = "NotifyError"
  /\ UNCHANGED <<exit_code, config, fields, loader, text, world, nextId, alive, deleted,
                 escaped, noops, devs>>

\* an except clause that lets the exceptions of the output commands pass
HandleException_OnlyTranscribe ==
  /\ running
  /\ cpc = "except"
  /\ IF raised = "DispatchError"
     THEN UNCHANGED <<log, raised>>
     ELSE /\ log' = Append(log, "notify:Error")
          /\ \E o \in NotifyOutcomes : raised' = Escape(o)
  /\ cpc' = "finally"
  /\ UNCHANGED <<exit_code, config, fields, loader, text, segments,
                 dispatched, world, nextId, alive, deleted, path, escaped,
                 noops, devs>>

\* lines 234-236: except Exception: the error notification; an OSError out
\* of notify() replaces the exception being handled
HandleException ==
  /\ running
  /\ cpc = "except"
  /\ log' = Append(log, "notify:Error")
  /\ \E o \in NotifyOutcomes : raised' = Escape(o)
  /\ cpc' = "finally"
  /\ UNCHANGED <<exit_code, config, fields, loader, text, segments, dispatched, world,
                 nextId, alive, deleted, path, escaped, noops, devs>>

\* a finally clause that unlinks nothing
Finally_NoUnlink ==
  /\ running
  /\ cpc = "finally"
  /\ cpc' = RunAfter(raised)
  /\ escaped' = raised
  /\ raised' = "none"
  /\ text' = << >>
  /\ dispatched' = << >>
  /\ UNCHANGED segments
  /\ alive' = alive \ {temp_file}
  /\ UNCHANGED <<exit_code, config, fields, loader, procs, nextId, path, noops,
                 disk, deleted, log, devs>>

\* lines 237-240: finally: unlink the temp file if it is set and exists; then
\* stop_recording returns, or the exception in flight goes on to run()
Finally ==
  /\ running
  /\ cpc = "finally"
  /\ IF temp_file # NoSession /\ temp_file \in disk
     THEN /\ disk' = disk \ {temp_file}
          /\ deleted' = [deleted EXCEPT ![temp_file] = @ + 1]
          /\ log' = Append(log, "unlink")
     ELSE UNCHANGED <<disk, deleted, log>>
  /\ cpc' = RunAfter(raised)
  /\ escaped' = raised
  /\ raised' = "none"
  /\ text' = << >>
  /\ dispatched' = << >>
  /\ UNCHANGED segments
  /\ alive' = alive \ {temp_file}
  /\ UNCHANGED <<exit_code, config, fields, loader, procs, nextId, path, noops, devs>>

\* run(), lines 263-271: dev.read() raises OSError for a device the selector
\* reported; the except clause passes and the loop goes on.  Nothing is
\* unregistered from the selector.
ReadError(d) ==
  /\ running
  /\ cpc = "run"
  /\ d \in registered
  /\ read_failed' = read_failed \cup {d}
  /\ UNCHANGED <<exit_code, config, fields, loader, mainthr, world, observe,
                 registered, started_by, stopped_by>>

\* lines 242-245 (the SIGINT handler of main(), 321-324): os._exit(0)
\* a shutdown that first ends the capture and removes the recording
Stop_Graceful ==
  /\ running
  /\ running' = FALSE
  /\ exit_code' = 0
  /\ procs' = {}
  /\ disk' = {}
  /\ UNCHANGED <<config, recording, record_process, temp_file, loader,
                 mainthr, observe, devs>>

Stop ==
  /\ running
  /\ running' = FALSE
  /\ exit_code' = 0
  /\ UNCHANGED <<config, recording, record_process, temp_file, loader,
                 mainthr, world, observe, devs>>

Next ==
  \/ LoadModel
  \/ SetLoaded
  \/ PrintBanner
  \/ RecordLoadError
  \/ SetLoadedAfterError
  \/ \E d \in Devices : StartRecording(d)
  \/ \E d \in Devices : StopRecording(d)
  \/ AwaitModel
  \/ CheckModelError
  \/ Transcribe
  \/ Dispatch
  \/ HandleException
  \/ Finally
  \/ Stop

Spec == Init /\ [][Next]_vars

\* The program under fair scheduling.  The loader is a thread of its own
\* (line 117) and each of its steps is a call that returns; the steps of
\* stop_recording after line 187 are calls that return, except the wait of
\* line 190, which returns once the latch is set.  Key edges and the
\* interrupt come from outside and need not happen.
LoaderStep ==
  \/ LoadModel
  \/ SetLoaded
  \/ PrintBanner
  \/ RecordLoadError
  \/ SetLoadedAfterError

HandlerStep ==
  \/ AwaitModel
  \/ CheckModelError
  \/ Transcribe
  \/ Dispatch
  \/ HandleException
  \/ Finally

NextLive ==
  \/ LoaderStep
  \/ HandlerStep
  \/ \E d \in Devices : nextId <= MaxLiveSessions /\ StartRecording(d)
  \/ \E d \in Devices : StopRecording(d)
  \/ Stop

SpecLive ==
  Init /\ [][NextLive]_vars /\ WF_vars(LoaderStep) /\ WF_vars(HandlerStep)

\* the same program with the device read failures of run()
NextListener ==
  \/ Next
  \/ \E d \in Devices : ReadError(d)

SpecListener == Init /\ [][NextListener]_vars

\* ------------------------------------------------------------ properties

\* what start_recording, stop_recording and the cycle act on
session_state == <<recording, record_process, temp_file, disk, procs, cpc,
                   raised, text, segments, dispatched, alive, deleted, path,
                   log>>

InLog(x) == \E i \in 1..Len(log) : log[i] = x

\* the exits of stop_recording that lie inside its try statement (198-240)
TranscriptionExits ==
  {"success", "empty", "transcribe_raised", "dispatch_raised", "notify_raised"}

\* C1: at most one recording session is alive at any time: at most one
\* session has been started and not yet finished by its Up-edge handling, at
\* most one capture process runs, and it belongs to that session, whose temp
\* file is the one self.temp_file names.
C1_AtMostOneSession ==
  /\ Cardinality(alive) <= 1
  /\ Cardinality(procs) <= 1
  /\ procs \subseteq alive
  /\ \A s \in alive : s = temp_file /\ s \in disk

\* a second session runs alone after the first has ended, and a Down edge
\* that arrived during a recording spawned nothing
C1_Witness ==
  /\ alive = {2}
  /\ procs = {2}
  /\ "down_recording" \in noops

\* C2: once stop_recording has been left through its try statement (text
\* dispatched, empty text, or an exception raised by the transcription call
\* or by anything after it in the block), the session's temp file has been
\* unlinked exactly once and is gone.
C2_TempFileDeletedOnce ==
  \A s \in Sessions :
    (path[s] \in TranscriptionExits /\ s \notin alive)
      => (deleted[s] = 1 /\ s \notin disk)

\* three finished sessions, one per exit path
C2_Witness ==
  /\ path[1] = "success"
  /\ path[2] = "empty"
  /\ path[3] = "transcribe_raised"
  /\ alive = {}
  /\ \A s \in Sessions : deleted[s] = 1 /\ s \notin disk

\* C3: a recording session exists iff the controller is Recording or
\* Transcribing: in Idle no capture process runs and no session temp file is
\* on disk; in Recording and Transcribing the session's temp file exists.
C3_SessionIffActive ==
  /\ CtrlState = "Idle" => (procs = {} /\ disk = {})
  /\ CtrlState \in {"Recording", "Transcribing"} => temp_file \in disk

\* C4: a Down edge handled while ModelState is Failed starts nothing: no temp
\* file, no capture process, no notification, the controller stays Idle.
C4_FailedRefusesStart ==
  [][((\E d \in Devices : StartRecording(d)) /\ ModelState = "Failed")
        => UNCHANGED <<recording, record_process, temp_file, disk, procs,
                       cpc, alive, log>>]_vars

\* C5: the readiness handshake: stop_recording stays blocked while the latch
\* is unset, the transcription statement is never reached before the latch
\* is set, and once the loader has reached Ready (engine stored, latch set)
\* the Up-edge handling that passes the wait goes on to transcription.
C5_ReadinessHandshake ==
  [][/\ (cpc = "wait" /\ ~model_loaded) => cpc' = "wait"
     /\ cpc' = "transcribe" => model_loaded'
     /\ (CheckModelError /\ model = "engine" /\ model_loaded)
           => cpc' = "transcribe"]_vars

\* C6: the transcription statement is reached only with the engine object
\* constructed; after a failed load the Up-edge handling never reaches it.
C6_NeverAbsentEngine ==
  cpc = "transcribe" => model = "engine"

\* C7: ModelState leaves Loading once and never changes afterwards: Ready
\* stays Ready and Failed stays Failed.
C7_ModelStateMonotonic ==
  [][/\ ModelState = "Ready" => ModelState' = "Ready"
     /\ ModelState = "Failed" => ModelState' = "Failed"]_vars

\* C8: an Up edge handled in Idle and a Down edge handled in Recording change
\* nothing: flag, process handle, temp file, processes, files, notifications
\* and the controller's position are as before.
C8_NoOps ==
  [][(((\E d \in Devices : StopRecording(d)) /\ CtrlState = "Idle")
        \/ ((\E d \in Devices : StartRecording(d)) /\ CtrlState = "Recording"))
       => UNCHANGED session_state]_vars

\* both ignored edges have been handled, and a session is being recorded
C8_Witness ==
  /\ {"up_idle", "down_recording"} \subseteq noops
  /\ recording
  /\ procs = {temp_file}

\* C9: after the transcription call raised, with the controller back in
\* Idle: the error notification was sent, the temp file is gone, nothing was
\* dispatched, the transcription's exception did not leave stop_recording,
\* and start_recording's guard lets the next Down edge start a session.
C9_TranscriptionErrorRecovers ==
  \A s \in Sessions :
    (path[s] = "transcribe_raised" /\ s \notin alive /\ s = temp_file
       /\ CtrlState = "Idle")
      => /\ InLog("notify:Error")
         /\ s \notin disk
         /\ ~InLog(ClipboardCmd) /\ ~InLog(TypeCmd) /\ ~InLog("notify:Copied!")
         /\ escaped \notin {"TranscribeError", "AttributeError"}
         /\ ~recording /\ ~Truthy(model_error)

\* C10: when the Up-edge handling leaves through the model-failed exit, the
\* session's temp file has been deleted by the time the controller is Idle.
C10_FailedExitCleansUp ==
  \A s \in Sessions :
    (path[s] = "model_failed" /\ s \notin alive) => s \notin disk

\* the call of stop_recording is past lines 207-232 and has not ended
AfterDispatch ==
  /\ cpc \in {"except", "finally"}
  /\ path[temp_file] \in {"success", "empty", "notify_raised", "dispatch_raised"}

\* C11: with an empty text neither the clipboard nor the typing command has
\* run and "No speech detected" was notified, not "Copied!"; the commands
\* have run only with a non-empty text.
C11_EmptyTextNoDispatch ==
  AfterDispatch =>
    IF text = << >>
    THEN /\ InLog("notify:No speech detected")
         /\ ~InLog(ClipboardCmd) /\ ~InLog(TypeCmd) /\ ~InLog("notify:Copied!")
    ELSE ~InLog("notify:No speech detected")

\* a transcription returned no text and the no-speech branch was taken
C11_Witness ==
  /\ cpc = "finally"
  /\ path[temp_file] = "empty"
  /\ text = << >>
  /\ InLog("transcribe")

\* C12: a device whose read has failed is no longer registered with the
\* selector (it is dropped from monitoring).
C12_FailedDeviceDropped ==
  read_failed \cap registered = {}

\* C19: edges are not tracked per device: an Up edge from a device other
\* than the one whose Down edge started the recording ends it (flag cleared,
\* capture stopped), and a Down edge from another device during a recording
\* changes nothing.
C19_EdgesNotPerDevice ==
  [][\A d \in Devices :
       /\ (StopRecording(d) /\ recording /\ d # started_by)
             => (~recording' /\ procs' = {} /\ record_process' = NoSession)
       /\ (StartRecording(d) /\ recording /\ d # started_by)
             => UNCHANGED session_state]_vars

\* a recording started from one keyboard has been ended by the Up edge of
\* another, after a Down edge was ignored during a recording
C19_Witness ==
  /\ cpc = "wait"
  /\ started_by # NoDevice
  /\ stopped_by # NoDevice
  /\ stopped_by # started_by
  /\ "down_recording" \in noops

\* C13: a failure to send a notification never surfaces from notify(): no
\* exception of notify() is in flight in, or leaves, a handler, and no
\* Up-edge handling is cut short or diverted by one.
C13_NotifyNeverSurfaces ==
  /\ escaped # "NotifyError"
  /\ raised # "NotifyError"
  /\ \A s \in Sessions : path[s] \notin {"aborted", "notify_raised"}

\* what the dispatch of a non-empty text must have invoked, written from the
\* command names rather than from the model's selection
C14_Expected ==
  LET wl == SESSION_TYPE = "wayland" IN
  << <<IF wl THEN "wl-copy" ELSE "xclip", text>> >>
    \o (IF AUTO_TYPE THEN << <<IF wl THEN "wtype" ELSE "xdotool", text>> >>
                     ELSE << >>)

C14_State ==
  (AfterDispatch /\ text # << >>) =>
    /\ Len(dispatched) >= 1
    /\ dispatched[1] = C14_Expected[1]
    /\ \A i \in 1..Len(dispatched) :
          i <= Len(C14_Expected) /\ dispatched[i] = C14_Expected[i]
    /\ path[temp_file] \in {"success", "notify_raised"} =>
          /\ dispatched = C14_Expected
          /\ LET k == Len(C14_Expected) IN
               \E n \in (k + 1)..Len(log) :
                 /\ log[n] = "notify:Copied!"
                 /\ \A i \in 1..k : log[n - 1 - k + i] = C14_Expected[i][1]
                 /\ \A j \in 1..Len(log) :
                       log[j] \in {"wl-copy", "xclip", "wtype", "xdotool",
                                   "notify:Copied!"} => j \in (n - k)..n

\* C14: when a transcription yields non-empty text, the clipboard command is
\* invoked first and with that text, the typing command is invoked next and
\* with that text exactly when auto_type is on, the "Copied!" notification
\* comes last, both commands belong to the backend of the session type, and
\* the session type never changes after start-up.
C14_ClipboardThenTyping ==
  []C14_State /\ [][SESSION_TYPE' = SESSION_TYPE]_vars

\* a Wayland session with auto_type on has copied and typed a text and sent
\* the success notification
C14_Witness ==
  /\ cpc = "finally"
  /\ path[temp_file] = "success"
  /\ SESSION_TYPE = "wayland"
  /\ AUTO_TYPE
  /\ Len(dispatched) = 2
  /\ text # << >>

\* C15: while the process runs, the interrupt handler can act whatever the
\* main thread is doing; the step that clears `running` ends the process with
\* status 0 and changes nothing else (the capture process stays alive, the
\* recording stays on disk, the handler in progress stays where it was); and
\* no step is taken after it.
C15_InterruptExitsAtOnce ==
  /\ [](running => ENABLED Stop)
  /\ [](running <=> exit_code = StillRunning)
  /\ [][/\ running
        /\ ~running' =>
              /\ exit_code' = 0
              /\ UNCHANGED <<recording, record_process, temp_file, disk,
                             procs, mainthr, alive, deleted, log>>]_vars

\* the interrupt arrived during a recording: the process has ended with
\* status 0, the capture process is alive and its file is on disk
C15_Witness ==
  /\ ~running
  /\ exit_code = 0
  /\ recording
  /\ procs = {temp_file}
  /\ temp_file \in disk

\* what the claim says load_config returns for a file: each option's value,
\* or its documented default where the option is absent or malformed
C16_Resolved(f) ==
  LET str(v, d)  == IF v = Missing \/ v = "tiny%" THEN d ELSE v
      bool(v) == IF v \in {"True"} THEN TRUE
                 ELSE IF v \in {"Off"} THEN FALSE
                 ELSE TRUE
  IN [status        |-> "ok",
      model         |-> str(f.model, "base.en"),
      device        |-> str(f.device, "cpu"),
      compute_type  |-> str(f.compute_type, "int8"),
      key           |-> str(f.key, "f12"),
      auto_type     |-> bool(f.auto_type),
      notifications |-> bool(f.notifications)]

\* C16: load_config never fails: once it has run, it has returned, and with
\* the documented default for each absent or malformed value.
C16_ConfigNeverFails ==
  (CONFIG.status # "unset" /\ config_file.kind \in {"absent", "parsed"})
    => CONFIG = C16_Resolved(config_file)

\* a segment contributes text when something is left of it after trimming
Contributes(seg) == Strip(seg) # << >>

\* C17: the joined text is empty exactly when no segment contributes text
\* (there are no segments, or each is empty once trimmed).
C17_EmptyIffNoSegmentText ==
  cpc = "dispatch" =>
    (text = << >> <=> \A i \in 1..Len(segments) : ~Contributes(segments[i]))

\* C20: after an output command raised, with the Up-edge handling over: the
\* command's exception did not leave stop_recording, the event loop is still
\* running with the controller in Idle, the error notification was sent and
\* the success notification was not, and the temp file was deleted, once.
C20_DispatchErrorRecovers ==
  \A s \in Sessions :
    (path[s] = "dispatch_raised" /\ s \notin alive /\ s = temp_file
       /\ ~recording)
      => /\ escaped # "DispatchError"
         /\ cpc = "run"
         /\ CtrlState = "Idle"
         /\ InLog("notify:Error")
         /\ ~InLog("notify:Copied!")
         /\ s \notin disk
         /\ deleted[s] = 1

\* the typing command raised after the clipboard command ran, and the
\* handling of that Up edge is over
C20_Witness ==
  /\ temp_file \in Sessions
  /\ path[temp_file] = "dispatch_raised"
  /\ temp_file \notin alive
  /\ ~recording
  /\ cpc = "run"
  /\ InLog(ClipboardCmd)
  /\ InLog("notify:Error")

\* C18: unless the process is interrupted, the loader sets the latch, whether
\* the model loaded or not; and every Up-edge handling that has begun to
\* transcribe brings the controller back to Idle.
C18_LatchSetAndCycleEnds ==
  /\ <>(model_loaded \/ ~running)
  /\ (cpc # "run") ~> (CtrlState = "Idle" \/ ~running)

\* the Up edge came before the loader was done: the handler is blocked in
\* the wait while the loader is in its except clause, the latch not yet set
C18_Witness ==
  /\ cpc = "wait"
  /\ ~model_loaded
  /\ lpc = "except_set"

====
